---- MODULE Spec2Model ----
(* Single-transaction stock trading: the two finders of                    *)
(* src/src/tradingAlgorithms.ts, findBestTrade (quadratic scan with        *)
(* restarts) and findBestTradeFast (single pass), run one after the other  *)
(* on the same price array as src/src/profitTest.ts does.  A third run, h,  *)
(* is the variant of findBestTrade that hoists the comparison value        *)
(* currentBestProfit out of the inner loop (design notes of the spec).     *)
(* Prices are finite numbers; the model draws them from 0..MaxPrice.       *)
(* Indices are 0-based as in the source; At(k) reads prices[k].            *)
EXTENDS Integers, Sequences, FiniteSets

VARIABLES prices, q, f, h

vars == <<prices, q, f, h>>

\* ---------------------------------------------------------------- bounds
MaxLen == 5
MaxPrice == 3

\* ---------------------------------------------------------------- helpers
\* prices.length
n == Len(prices)

\* prices[k], k a 0-based index; defined only for 0 <= k < n
At(k) == prices[k + 1]

\* all arrays of length 0..MaxLen (Array of number)
PriceSequences == UNION {[1..len -> 0..MaxPrice] : len \in 0..MaxLen}

\* ------------------------------------------------- findBestTrade (O(n^2))
\* locals after lines 11-23 and the loop initialiser of line 27.
\* pc is the position in the function; reads counts the element reads
\* prices[...] made so far, outerIters the outer-loop bodies entered and
\* skipped the buy positions the restarts of line 75 have jumped over.
QInit ==
    [pc |-> "outer",
     bestBuyIndex |-> 0,
     bestSellIndex |-> 0,
     currentBestProfit |-> 0,
     minPriceDrop |-> 0,
     isOptimalFound |-> TRUE,
     nextTradeStartIndex |-> -1,
     currentIndex |-> 0,
     futureIndex |-> 0,
     reads |-> 0,
     outerIters |-> 0,
     skipped |-> {}]

\* line 27: currentIndex < prices.length - 1
OuterCond_OffByOne(currentIndex, len) == currentIndex < len
OuterCond(currentIndex, len) == currentIndex < len - 1

\* line 32: futureIndex < prices.length
InnerCond_StopsEarly(futureIndex, len) == futureIndex < len - 1
InnerCond(futureIndex, len) == futureIndex < len

\* line 41: potentialProfit > currentBestProfit
Improves_Reversed(potentialProfit, currentBestProfit) ==
    potentialProfit < currentBestProfit
Improves(potentialProfit, currentBestProfit) ==
    potentialProfit > currentBestProfit

\* lines 42-43: the pair recorded as <<bestBuyIndex, bestSellIndex>>
BestPair_Swapped(currentIndex, futureIndex) == <<futureIndex, currentIndex>>
BestPair(currentIndex, futureIndex) == <<currentIndex, futureIndex>>

\* line 48: potentialProfit < minPriceDrop
IsDrop(potentialProfit, minPriceDrop) == potentialProfit < minPriceDrop

\* line 71: nextTradeStartIndex >= 1 && nextTradeStartIndex <= prices.length - 2
CanRestart(nextTradeStartIndex, len) ==
    nextTradeStartIndex >= 1 /\ nextTradeStartIndex <= len - 2

\* lines 27-32: the outer test succeeds, the body resets the per-iteration
\* locals and the inner loop is initialised
QOuterEnter ==
    /\ q.pc = "outer"
    /\ OuterCond(q.currentIndex, n)
    /\ q' = [q EXCEPT !.pc = "inner",
                      !.isOptimalFound = TRUE,
                      !.minPriceDrop = 0,
                      !.futureIndex = q.currentIndex + 1,
                      !.outerIters = @ + 1]
    /\ UNCHANGED <<prices, f, h>>

\* lines 27, 81: the outer test fails and the function returns
QOuterExit ==
    /\ q.pc = "outer"
    /\ ~OuterCond(q.currentIndex, n)
    /\ q' = [q EXCEPT !.pc = "done"]
    /\ UNCHANGED <<prices, f, h>>

\* lines 32-61: one iteration of the inner loop
QInnerStep ==
    /\ q.pc = "inner"
    /\ InnerCond(q.futureIndex, n)
    /\ LET potentialProfit == At(q.futureIndex) - At(q.currentIndex)
           currentBestProfit == At(q.bestSellIndex) - At(q.bestBuyIndex)
           better == Improves(potentialProfit, currentBestProfit)
           drop == IsDrop(potentialProfit, q.minPriceDrop)
           pair == BestPair(q.currentIndex, q.futureIndex)
       IN q' = [q EXCEPT
                  !.currentBestProfit = currentBestProfit,
                  !.bestBuyIndex = IF better THEN pair[1] ELSE @,
                  !.bestSellIndex = IF better THEN pair[2] ELSE @,
                  !.minPriceDrop = IF drop THEN potentialProfit ELSE @,
                  !.nextTradeStartIndex = IF drop THEN q.futureIndex ELSE @,
                  !.isOptimalFound = IF drop THEN FALSE ELSE @,
                  !.futureIndex = @ + 1,
                  !.reads = @ + 4]
    /\ UNCHANGED <<prices, f, h>>

\* lines 32, 65-67: inner loop over, no drop seen: early return
QReturnOptimal ==
    /\ q.pc = "inner"
    /\ ~InnerCond(q.futureIndex, n)
    /\ q.isOptimalFound
    /\ q' = [q EXCEPT !.pc = "done"]
    /\ UNCHANGED <<prices, f, h>>

\* lines 32, 68-76, 27: a drop was seen and the restart guard holds:
\* currentIndex = nextTradeStartIndex - 1, then the loop's currentIndex++
QRestart ==
    /\ q.pc = "inner"
    /\ ~InnerCond(q.futureIndex, n)
    /\ ~q.isOptimalFound
    /\ CanRestart(q.nextTradeStartIndex, n)
    /\ q' = [q EXCEPT !.pc = "outer",
                      !.currentIndex = (q.nextTradeStartIndex - 1) + 1,
                      !.skipped = @ \cup ((q.currentIndex + 1)..
                                             (q.nextTradeStartIndex - 1))]
    /\ UNCHANGED <<prices, f, h>>

\* lines 32, 68-77, 27: a drop was seen but the restart guard fails:
\* only the loop's currentIndex++
QAdvance ==
    /\ q.pc = "inner"
    /\ ~InnerCond(q.futureIndex, n)
    /\ ~q.isOptimalFound
    /\ ~CanRestart(q.nextTradeStartIndex, n)
    /\ q' = [q EXCEPT !.pc = "outer",
                      !.currentIndex = @ + 1]
    /\ UNCHANGED <<prices, f, h>>

\* --------------------------------------------- findBestTradeFast (O(n))
\* not yet called; the locals hold the values of lines 103-106.
\* pc is the position in the function; reads counts the element reads
\* prices[...] made so far and iters the loop bodies entered.
FInit ==
    [pc |-> "call",
     minPriceIndex |-> 0,
     maxProfit |-> 0,
     bestBuyIndex |-> 0,
     bestSellIndex |-> 0,
     i |-> 0,
     reads |-> 0,
     iters |-> 0]

\* line 100: prices.length < 2
TooShort(len) == len < 2

\* line 109: i < prices.length
FastCond(i, len) == i < len

\* line 111: prices[i] < prices[minPriceIndex]
NewMin_Reversed(price, minPrice) == price > minPrice
NewMin(price, minPrice) == price < minPrice

\* line 117: currentProfit > maxProfit
FastImproves_OrEqual(currentProfit, maxProfit) == currentProfit >= maxProfit
FastImproves(currentProfit, maxProfit) == currentProfit > maxProfit

\* line 100: fewer than two prices, return [0, 0]
FEarlyReturn ==
    /\ q.pc = "done"
    /\ f.pc = "call"
    /\ TooShort(n)
    /\ f' = [f EXCEPT !.pc = "done", !.bestBuyIndex = 0, !.bestSellIndex = 0]
    /\ UNCHANGED <<prices, q, h>>

\* lines 100-109: the locals are initialised and the pass starts at i = 1
FStart ==
    /\ q.pc = "done"
    /\ f.pc = "call"
    /\ ~TooShort(n)
    /\ f' = [f EXCEPT !.pc = "loop",
                      !.minPriceIndex = 0,
                      !.maxProfit = 0,
                      !.bestBuyIndex = 0,
                      !.bestSellIndex = 0,
                      !.i = 1]
    /\ UNCHANGED <<prices, q, h>>

\* lines 109-112: a new minimum price
FNewMin ==
    /\ f.pc = "loop"
    /\ FastCond(f.i, n)
    /\ NewMin(At(f.i), At(f.minPriceIndex))
    /\ f' = [f EXCEPT !.minPriceIndex = f.i,
                      !.i = @ + 1,
                      !.reads = @ + 2,
                      !.iters = @ + 1]
    /\ UNCHANGED <<prices, q, h>>

\* lines 109-122: not a new minimum: sell today against the minimum
FSell ==
    /\ f.pc = "loop"
    /\ FastCond(f.i, n)
    /\ ~NewMin(At(f.i), At(f.minPriceIndex))
    /\ LET currentProfit == At(f.i) - At(f.minPriceIndex)
           better == FastImproves(currentProfit, f.maxProfit)
       IN f' = [f EXCEPT
                  !.maxProfit = IF better THEN currentProfit ELSE @,
                  !.bestBuyIndex = IF better THEN f.minPriceIndex ELSE @,
                  !.bestSellIndex = IF better THEN f.i ELSE @,
                  !.i = @ + 1,
                  !.reads = @ + 4,
                  !.iters = @ + 1]
    /\ UNCHANGED <<prices, q, h>>

\* lines 109, 124: the pass is over
FReturn ==
    /\ f.pc = "loop"
    /\ ~FastCond(f.i, n)
    /\ f' = [f EXCEPT !.pc = "done"]
    /\ UNCHANGED <<prices, q, h>>

\* ------------------------------ findBestTrade with the comparison hoisted
\* The variant of findBestTrade in which line 37 is moved in front of the
\* inner loop: currentBestProfit is computed once per outer iteration.
\* With refresh = FALSE the value then stays as it is for the whole inner
\* scan; with refresh = TRUE it is also set to potentialProfit whenever a
\* better pair is recorded.
HInit(refresh) ==
    [pc |-> "call",
     refresh |-> refresh,
     bestBuyIndex |-> 0,
     bestSellIndex |-> 0,
     currentBestProfit |-> 0,
     minPriceDrop |-> 0,
     isOptimalFound |-> TRUE,
     nextTradeStartIndex |-> -1,
     currentIndex |-> 0,
     futureIndex |-> 0]

\* the variant is called after the two finders have returned
HCall ==
    /\ q.pc = "done"
    /\ f.pc = "done"
    /\ h.pc = "call"
    /\ h' = [h EXCEPT !.pc = "outer"]
    /\ UNCHANGED <<prices, q, f>>

\* lines 27-32 with line 37 hoisted: the comparison value is computed here
HOuterEnter ==
    /\ h.pc = "outer"
    /\ OuterCond(h.currentIndex, n)
    /\ h' = [h EXCEPT !.pc = "inner",
                      !.isOptimalFound = TRUE,
                      !.minPriceDrop = 0,
                      !.currentBestProfit =
                          At(h.bestSellIndex) - At(h.bestBuyIndex),
                      !.futureIndex = h.currentIndex + 1]
    /\ UNCHANGED <<prices, q, f>>

\* lines 27, 81
HOuterExit ==
    /\ h.pc = "outer"
    /\ ~OuterCond(h.currentIndex, n)
    /\ h' = [h EXCEPT !.pc = "done"]
    /\ UNCHANGED <<prices, q, f>>

\* lines 32-61 without line 37
HInnerStep ==
    /\ h.pc = "inner"
    /\ InnerCond(h.futureIndex, n)
    /\ LET potentialProfit == At(h.futureIndex) - At(h.currentIndex)
           better == Improves(potentialProfit, h.currentBestProfit)
           drop == IsDrop(potentialProfit, h.minPriceDrop)
           pair == BestPair(h.currentIndex, h.futureIndex)
       IN h' = [h EXCEPT
                  !.currentBestProfit =
                      IF better /\ h.refresh THEN potentialProfit ELSE @,
                  !.bestBuyIndex = IF better THEN pair[1] ELSE @,
                  !.bestSellIndex = IF better THEN pair[2] ELSE @,
                  !.minPriceDrop = IF drop THEN potentialProfit ELSE @,
                  !.nextTradeStartIndex = IF drop THEN h.futureIndex ELSE @,
                  !.isOptimalFound = IF drop THEN FALSE ELSE @,
                  !.futureIndex = @ + 1]
    /\ UNCHANGED <<prices, q, f>>

\* lines 32, 65-67
HReturnOptimal ==
    /\ h.pc = "inner"
    /\ ~InnerCond(h.futureIndex, n)
    /\ h.isOptimalFound
    /\ h' = [h EXCEPT !.pc = "done"]
    /\ UNCHANGED <<prices, q, f>>

\* lines 32, 68-76, 27
HRestart ==
    /\ h.pc = "inner"
    /\ ~InnerCond(h.futureIndex, n)
    /\ ~h.isOptimalFound
    /\ CanRestart(h.nextTradeStartIndex, n)
    /\ h' = [h EXCEPT !.pc = "outer",
                      !.currentIndex = (h.nextTradeStartIndex - 1) + 1]
    /\ UNCHANGED <<prices, q, f>>

\* lines 32, 68-77, 27
HAdvance ==
    /\ h.pc = "inner"
    /\ ~InnerCond(h.futureIndex, n)
    /\ ~h.isOptimalFound
    /\ ~CanRestart(h.nextTradeStartIndex, n)
    /\ h' = [h EXCEPT !.pc = "outer",
                      !.currentIndex = @ + 1]
    /\ UNCHANGED <<prices, q, f>>

\* ---------------------------------------------------------- specification
Init ==
    /\ prices \in PriceSequences
    /\ q = QInit
    /\ f = FInit
    /\ h \in {HInit(refresh) : refresh \in BOOLEAN}

Next ==
    \/ QOuterEnter
    \/ QOuterExit
    \/ QInnerStep
    \/ QReturnOptimal
    \/ QRestart
    \/ QAdvance
    \/ FEarlyReturn
    \/ FStart
    \/ FNewMin
    \/ FSell
    \/ FReturn
    \/ HCall
    \/ HOuterEnter
    \/ HOuterExit
    \/ HInnerStep
    \/ HReturnOptimal
    \/ HRestart
    \/ HAdvance

Spec == Init /\ [][Next]_vars

\* the calls are synchronous and single-threaded: a step that can be taken
\* is taken
FairSpec == Spec /\ WF_vars(Next)

\* ------------------------------------------------------------ properties
\* the returned tuples
QResult == <<q.bestBuyIndex, q.bestSellIndex>>
FResult == <<f.bestBuyIndex, f.bestSellIndex>>
QDone == q.pc = "done"
FDone == f.pc = "done"

\* all index pairs 0 <= b < s <= n-1
Pairs == {pr \in (0..(n - 1)) \X (0..(n - 1)) : pr[1] < pr[2]}

\* p[s] - p[b] of a pair of valid indices
PairProfit(pr) == At(pr[2]) - At(pr[1])

\* realized profit of a returned tuple; the empty array counts as profit 0
Realized(res) == IF n = 0 THEN 0 ELSE At(res[2]) - At(res[1])

\* the maximum of p[s] - p[b] over all pairs, 0 when there is no pair
BestAchievable ==
    IF Pairs = {} THEN 0
    ELSE CHOOSE m \in {PairProfit(pr) : pr \in Pairs} :
             \A pr \in Pairs : PairProfit(pr) <= m

\* the pairs that achieve the maximum
MaximalPairs == {pr \in Pairs : PairProfit(pr) = BestAchievable}

\* lexicographic order on index pairs
LexLeq(a, b) == a[1] < b[1] \/ (a[1] = b[1] /\ a[2] <= b[2])

\* the earliest maximal pair
EarliestMaximalPair ==
    CHOOSE pr \in MaximalPairs : \A other \in MaximalPairs : LexLeq(pr, other)

\* a result is optimal: maximal profit when that is positive, else (0,0)
Optimal(res) ==
    IF BestAchievable > 0 THEN Realized(res) = BestAchievable
    ELSE res = <<0, 0>>

NonIncreasing == \A k \in 1..(n - 1) : At(k) <= At(k - 1)
StrictlyIncreasing == \A k \in 1..(n - 1) : At(k) > At(k - 1)

\* the recorded best pair is (0,0) or 0 <= buy < sell <= n-1
ValidBest(buy, sell) ==
    \/ (buy = 0 /\ sell = 0)
    \/ (0 <= buy /\ buy < sell /\ sell <= n - 1)

\* C1: findBestTrade returns a pair of maximal profit over all b < s when
\* that maximum is positive, and (0,0) when n < 2 or no pair is profitable.
C1_QuadraticOptimal == QDone => Optimal(QResult)

\* C2: findBestTradeFast returns a pair of maximal profit over all b < s
\* when that maximum is positive, and (0,0) when n < 2 or no pair is
\* profitable.
C2_FastOptimal == FDone => Optimal(FResult)

\* C2 witness: the pass has returned a profitable pair bought at a minimum
\* that was found after position 0, and the minimum moved again afterwards
C2_Witness ==
    /\ FDone
    /\ BestAchievable > 0
    /\ f.bestBuyIndex > 0
    /\ f.minPriceIndex > f.bestSellIndex

\* C3: both finders return pairs of equal realized profit on every array.
C3_ProfitAgreement ==
    (QDone /\ FDone) => Realized(QResult) = Realized(FResult)

\* C4: both finders return the identical (buyIndex, sellIndex) pair on
\* every array.
C4_IndexAgreement == (QDone /\ FDone) => QResult = FResult

\* C5: the realized profit of the pair each finder returns is >= 0.
C5_NonNegative ==
    /\ QDone => Realized(QResult) >= 0
    /\ FDone => Realized(FResult) >= 0

\* C5 witness: both have returned on an array where some pair loses money
\* and no pair is profitable, so the fallback is what keeps the profit >= 0
C5_Witness ==
    /\ QDone /\ FDone
    /\ \E pr \in Pairs : PairProfit(pr) < 0
    /\ BestAchievable = 0
    /\ q.reads > 0

\* C6: when more than one pair achieves the maximal positive profit, both
\* finders return the lexicographically smallest maximal pair.
C6_EarliestPair ==
    (BestAchievable > 0 /\ Cardinality(MaximalPairs) > 1) =>
        /\ QDone => QResult = EarliestMaximalPair
        /\ FDone => FResult = EarliestMaximalPair

\* C7: on an array of length 0 or 1 neither finder enters its search loop
\* or reads an element, and both return (0,0).
C7_Boundary ==
    n < 2 =>
        /\ q.reads = 0 /\ q.outerIters = 0 /\ q.pc # "inner"
        /\ f.reads = 0 /\ f.iters = 0 /\ f.pc # "loop"
        /\ QDone => QResult = <<0, 0>>
        /\ FDone => FResult = <<0, 0>>

\* C7 witness: both have returned on a single-element array
C7_Witness == n = 1 /\ QDone /\ FDone

\* C8: on a non-increasing array (flat included) both finders return
\* exactly (0,0).
C8_NoProfitableTrade ==
    NonIncreasing =>
        /\ QDone => QResult = <<0, 0>>
        /\ FDone => FResult = <<0, 0>>

\* C8 witness: both have returned on a non-increasing array of at least
\* three prices that has a flat step and a falling step
C8_Witness ==
    /\ QDone /\ FDone
    /\ NonIncreasing
    /\ n >= 3
    /\ \E k \in 1..(n - 1) : At(k) = At(k - 1)
    /\ \E k \in 1..(n - 1) : At(k) < At(k - 1)

\* C9: on a strictly increasing array of length n >= 2 both finders return
\* (0, n-1).
C9_MonotonicIncreasing ==
    (StrictlyIncreasing /\ n >= 2) =>
        /\ QDone => QResult = <<0, n - 1>>
        /\ FDone => FResult = <<0, n - 1>>

\* C9 witness: both have returned on a strictly increasing array of at
\* least three prices
C9_Witness == QDone /\ FDone /\ StrictlyIncreasing /\ n >= 3

\* C10: at every point of both finders on an array of length n >= 2 the
\* recorded best pair is (0,0) or satisfies 0 <= buy < sell <= n-1.
C10_IndexValidity ==
    n >= 2 =>
        /\ ValidBest(q.bestBuyIndex, q.bestSellIndex)
        /\ ValidBest(f.bestBuyIndex, f.bestSellIndex)

\* C10 witness: the outer scan has restarted past at least one position
\* after a profitable pair was recorded
C10_Witness ==
    /\ q.pc = "outer"
    /\ q.currentIndex > q.outerIters
    /\ q.bestSellIndex > 0

\* C11: every buy position k skipped by a restart is suboptimal: for every
\* sell position s > k the profit p[s] - p[k] does not exceed the profit of
\* the pair findBestTrade finally returns.
C11_SkipSound ==
    QDone => \A k \in q.skipped : \A s \in (k + 1)..(n - 1) :
                 At(s) - At(k) <= Realized(QResult)

\* the most outer iterations an array of length n allows
MaxOuterIters == IF n = 0 THEN 0 ELSE n - 1

\* C13: each outer iteration of findBestTrade starts at a strictly greater
\* buy index than the one before (a restart target is greater than the
\* current index, a failed restart guard advances by one), there are at
\* most n-1 outer iterations, and the function returns.
C13_ProgressAndTermination ==
    /\ [][(q.pc = "inner" /\ q'.pc = "outer") =>
            /\ q'.currentIndex > q.currentIndex
            /\ q.nextTradeStartIndex > q.currentIndex
            /\ (~CanRestart(q.nextTradeStartIndex, n) =>
                    q'.currentIndex = q.currentIndex + 1)]_vars
    /\ [](q.outerIters <= MaxOuterIters)
    /\ <>QDone

\* C13 witness: findBestTrade has returned after a restart that jumped over
\* at least one position and after at least two outer iterations
C13_Witness ==
    /\ QDone
    /\ q.outerIters >= 2
    /\ q.skipped # {}

\* the tuple the hoisted variant returns
HResult == <<h.bestBuyIndex, h.bestSellIndex>>
HDone == h.pc = "done"

\* C12 as stated: the variant that computes currentBestProfit once at the
\* start of each outer iteration returns the same pair as findBestTrade.
C12_HoistEquivalent == (QDone /\ HDone /\ ~h.refresh) => HResult = QResult

\* C12 amended: the variant that computes currentBestProfit at the start of
\* each outer iteration and sets it again whenever it records a better
\* pair returns the same pair as findBestTrade.
C12_RefreshedHoistEquivalent ==
    (QDone /\ HDone /\ h.refresh) => HResult = QResult

\* C12 witness: the refreshing variant has returned a profitable pair and a
\* later sale from the same buy position was profitable too, the case in
\* which a stale comparison value would have been overwritten
C12_Witness ==
    /\ QDone /\ HDone /\ h.refresh
    /\ HResult # <<0, 0>>
    /\ \E s \in (h.bestSellIndex + 1)..(n - 1) : At(s) > At(h.bestBuyIndex)

====
